---- MODULE Spec2Model ----
(***************************************************************************)
(* Model of parser.py: the EPS extractor for HTML filings.                 *)
(*                                                                         *)
(* Text is modelled at character level: a string is a sequence of          *)
(* one-character strings, so that strip(), replace(), float(), substring   *)
(* tests, word boundaries, character windows and "{:.2f}" are computed,    *)
(* not assumed.                                                            *)
(***************************************************************************)
EXTENDS Integers, Sequences, FiniteSets, TLC

VARIABLES
    pc,             \* position of the program
    tok,            \* argument of a stand-alone extract_eps_value call
    out,            \* its return value
    listing,        \* os.listdir(input_dir): one entry per directory entry
    fi,             \* index in listing of the entry process_directory is at
    results,        \* process_directory: the rows collected so far
    doc,            \* the parsed document (soup) of the file being searched
    target_tables,  \* find_eps_in_file: tables that follow a statement header
    ti,             \* index in target_tables of the table being scanned
    ri,             \* index of the row being scanned in that table
    found_values,   \* find_eps_in_file: candidates recorded by table mode
    consulted,      \* the search modes whose code has run for this file
    ret             \* return value of find_eps_in_file for this file

vars == <<pc, tok, out, listing, fi, results, doc, target_tables, ti, ri,
          found_values, consulted, ret>>

----------------------------------------------------------------------------
(* Characters and strings                                                  *)

None == "None"

DigitChars == <<"0", "1", "2", "3", "4", "5", "6", "7", "8", "9">>

Digits == {DigitChars[i] : i \in 1..10}

DigitVal(c) == (CHOOSE i \in 1..10 : DigitChars[i] = c) - 1

UpperChars == <<"A","B","C","D","E","F","G","H","I","J","K","L","M",
                "N","O","P","Q","R","S","T","U","V","W","X","Y","Z">>

LowerChars == <<"a","b","c","d","e","f","g","h","i","j","k","l","m",
                "n","o","p","q","r","s","t","u","v","w","x","y","z">>

Uppers == {UpperChars[i] : i \in 1..26}

Lowers == {LowerChars[i] : i \in 1..26}

\* str.lower() on one character
LowerChar(c) ==
    IF c \in Uppers
    THEN LowerChars[CHOOSE i \in 1..26 : UpperChars[i] = c]
    ELSE c

\* str.lower()
Lower(s) == [i \in 1..Len(s) |-> LowerChar(s[i])]

\* \s of the re module, and the characters str.strip() removes
IsSpace(c) == c \in {" ", "\n", "\t"}

\* \w of the re module
IsWordChar(c) == c \in Digits \cup Uppers \cup Lowers \cup {"_"}

SetMin(S) == CHOOSE x \in S : \A y \in S : x <= y

SetMax(S) == CHOOSE x \in S : \A y \in S : x >= y

\* str.strip()
StripTo(s, keep) ==
    IF keep = {} THEN <<>> ELSE SubSeq(s, SetMin(keep), SetMax(keep))

Strip(s) == StripTo(s, {i \in 1..Len(s) : ~IsSpace(s[i])})

\* s.replace(c, '') for every c in chars
Remove(s, chars) == SelectSeq(s, LAMBDA c : c \notin chars)

\* s.startswith(p)
StartsWith(s, p) == Len(s) >= Len(p) /\ SubSeq(s, 1, Len(p)) = p

\* s.endswith(p)
EndsWith(s, p) == Len(s) >= Len(p) /\ SubSeq(s, Len(s) - Len(p) + 1, Len(s)) = p

\* p occurs in s at position i (1-based)
OccursAt(s, p, i) ==
    /\ i >= 1
    /\ i + Len(p) - 1 <= Len(s)
    /\ \A k \in 1..Len(p) : s[i + k - 1] = p[k]

\* p in s
Contains(s, p) == \E i \in 1..(Len(s) - Len(p) + 1) : OccursAt(s, p, i)

\* ''.join(parts)
RECURSIVE Join(_)
Join(parts) ==
    IF parts = <<>> THEN <<>> ELSE Head(parts) \o Join(Tail(parts))

----------------------------------------------------------------------------------------------------------------------------------------------
(* float() and "{:.2f}".format()                                           *)

NoFloat == [ok |-> FALSE]

\* the integer a sequence of digit characters denotes
RECURSIVE NatOf(_)
NatOf(ds) ==
    IF ds = <<>> THEN 0
    ELSE 10 * NatOf(SubSeq(ds, 1, Len(ds) - 1)) + DigitVal(ds[Len(ds)])

\* the position of the first point of body, or one past its end
DotPos(body) ==
    IF \E i \in 1..Len(body) : body[i] = "."
    THEN SetMin({i \in 1..Len(body) : body[i] = "."})
    ELSE Len(body) + 1

\* a decimal literal without its sign: digits with at most one point and at
\* least one digit
IsDecimal(body) ==
    /\ \A i \in 1..Len(body) : body[i] \in Digits \cup {"."}
    /\ Cardinality({i \in 1..Len(body) : body[i] = "."}) <= 1
    /\ \E i \in 1..Len(body) : body[i] \in Digits

\* the value of the decimal literal body, split at its point: the sign, the
\* whole part and the fractional digits
DecimalValue(neg, body, dot) ==
    [ok    |-> TRUE,
     neg   |-> neg,
     whole |-> NatOf(SubSeq(body, 1, dot - 1)),
     frac  |-> [i \in 1..(Len(body) - dot) |-> DigitVal(body[dot + i])]]

ParseUnsigned(neg, body) ==
    IF IsDecimal(body) THEN DecimalValue(neg, body, DotPos(body)) ELSE NoFloat

HasSign(t) == Len(t) > 0 /\ t[1] \in {"+", "-"}

ParseStripped(t) ==
    ParseUnsigned(HasSign(t) /\ t[1] = "-", IF HasSign(t) THEN Tail(t) ELSE t)

\* float(s) for decimal literals: surrounding whitespace, an optional sign,
\* then a decimal literal
ParseFloat(s) == ParseStripped(Strip(s))

\* Negate without the change of sign, which C2 rejects
NegateNever(v) == v

\* -v
Negate(v) == IF v.ok THEN [v EXCEPT !.neg = ~v.neg] ELSE v

\* InBounds with the bound 2500 for 25, which C1 rejects
InBoundsWide(v) == v.whole < 2500

\* -25 <= v <= 25
InBounds(v) ==
    \/ v.whole < 25
    \/ v.whole = 25 /\ \A i \in 1..Len(v.frac) : v.frac[i] = 0

\* Decimal ties x.dd5 whose double lies above the decimal, so that "{:.2f}"
\* rounds them up (in thousandths).  The table covers the ties written with
\* the digits 0, 2 and 5, the digits of TokenChars; every other such tie is
\* rounded down by the double.
TieRoundsUp ==
    {5, 25, 55, 225, 255, 505, 525, 555, 2055, 2205, 2225, 2555, 5025, 5205,
     5525, 20225, 22225}

\* the i-th fractional digit of v
FracDigit(v, i) == IF i <= Len(v.frac) THEN v.frac[i] ELSE 0

\* whether the digits after the second fractional digit round up
RoundsUp(v) ==
    \/ FracDigit(v, 3) > 5
    \/ /\ FracDigit(v, 3) = 5
       /\ \/ \E i \in 4..Len(v.frac) : v.frac[i] # 0
          \/ (v.whole * 1000 + FracDigit(v, 1) * 100 + FracDigit(v, 2) * 10 + 5)
                \in TieRoundsUp

\* |v| in hundredths, rounded to the nearest
Hundredths(v) ==
    v.whole * 100 + FracDigit(v, 1) * 10 + FracDigit(v, 2)
        + (IF RoundsUp(v) THEN 1 ELSE 0)

\* the decimal string of a natural number
RECURSIVE DecStr(_)
DecStr(n) ==
    IF n < 10 THEN <<DigitChars[n + 1]>>
    ELSE DecStr(n \div 10) \o <<DigitChars[(n % 10) + 1]>>

FormatHundredths(neg, h) ==
    (IF neg THEN <<"-">> ELSE <<>>)
        \o DecStr(h \div 100)
        \o <<".", DigitChars[((h \div 10) % 10) + 1], DigitChars[(h % 10) + 1]>>

\* "{:.2f}".format(v): round to the nearest hundredth, keep the sign
Format2(v) == FormatHundredths(v.neg, Hundredths(v))

----------------------------------------------------------------------------
(* extract_eps_value                                                       *)

\* text.startswith('(') and text.endswith(')')
IsParenthesized(t) == StartsWith(t, <<"(">>) /\ EndsWith(t, <<")">>)

\* the sanity check for bounds and the formatting of the output
CheckBounds(value) ==
    IF value.ok /\ InBounds(value) THEN Format2(value) ELSE None

ParseToken(t) ==
    IF IsParenthesized(t)
    THEN Negate(ParseFloat(SubSeq(t, 2, Len(t) - 1)))
    ELSE ParseFloat(Remove(t, {"$", ","}))

extract_eps_value(text) == CheckBounds(ParseToken(Strip(text)))

----------
(* find_eps_in_file: catalogs                                              *)

eps_terms ==
    << <<"e","a","r","n","i","n","g","s"," ","p","e","r"," ","b","a","s","i","c",
          " ","s","h","a","r","e">>, <<"b","a","s","i","c"," ","e","a","r","n","i","n","g","s"," ","p","e","r",
          " ","s","h","a","r","e">>,
       <<"e","a","r","n","i","n","g","s"," ","p","e","r"," ","c","o","m","m","o",
          "n"," ","s","h","a","r","e"," ","-"," ","b","a","s","i","c">>, <<"e","a","r","n","i","n","g","s"," ","p","e","r"," ","s","h","a","r","e",
          " ","-"," ","b","a","s","i","c">>,
       <<"b","a","s","i","c"," ","e","a","r","n","i","n","g","s"," ","p","e","r",
          " ","c","o","m","m","o","n"," ","s","h","a","r","e">>, <<"e","a","r","n","i","n","g","s"," ","p","e","r"," ","c","o","m","m","o",
          "n"," ","s","h","a","r","e">>,
       <<"e","a","r","n","i","n","g","s"," ","p","e","r"," ","s","h","a","r","e">>, <<"e","p","s">>,
       <<"b","a","s","i","c"," ","i","n","c","o","m","e"," ","p","e","r"," ","s",
          "h","a","r","e">>, <<"b","a","s","i","c"," ","n","e","t"," ","i","n","c","o","m","e"," ","p",
          "e","r"," ","s","h","a","r","e">>,
       <<"n","e","t"," ","i","n","c","o","m","e"," ","p","e","r"," ","s","h","a",
          "r","e"," ","-"," ","b","a","s","i","c">>, <<"n","e","t"," ","i","n","c","o","m","e"," ","p","e","r"," ","c","o","m",
          "m","o","n"," ","s","h","a","r","e"," ","-"," ","b","a","s","i","c">>,
       <<"i","n","c","o","m","e"," ","p","e","r"," ","c","o","m","m","o","n"," ",
          "s","h","a","r","e">>, <<"n","e","t"," ","i","n","c","o","m","e"," ","p","e","r"," ","c","o","m",
          "m","o","n"," ","s","h","a","r","e">>,
       <<"i","n","c","o","m","e"," ","p","e","r"," ","s","h","a","r","e">>,
       <<"n","e","t"," ","i","n","c","o","m","e"," ","p","e","r"," ","s","h","a",
          "r","e">>,
       <<"b","a","s","i","c"," ","p","r","o","f","i","t"," ","p","e","r"," ","s",
          "h","a","r","e">>, <<"p","r","o","f","i","t"," ","p","e","r"," ","s","h","a","r","e">>,
       <<"b","a","s","i","c"," ","l","o","s","s"," ","p","e","r"," ","s","h","a",
          "r","e">>, <<"b","a","s","i","c"," ","n","e","t"," ","l","o","s","s"," ","p","e","r",
          " ","s","h","a","r","e">>,
       <<"n","e","t"," ","l","o","s","s"," ","p","e","r"," ","c","o","m","m","o",
          "n"," ","s","h","a","r","e"," ","-"," ","b","a","s","i","c">>, <<"l","o","s","s"," ","p","e","r"," ","s","h","a","r","e">>,
       <<"n","e","t"," ","l","o","s","s"," ","p","e","r"," ","s","h","a","r","e">>,
       <<"n","e","t"," ","l","o","s","s"," ","p","e","r"," ","c","o","m","m","o",
          "n"," ","s","h","a","r","e">>, <<"b","a","s","i","c"," ","a","n","d"," ","d","i","l","u","t","e","d"," ",
          "l","o","s","s"," ","p","e","r"," ","s","h","a","r","e">>,
       <<"e","a","r","n","i","n","g","s"," ","(","l","o","s","s",")"," ","p","e",
          "r"," ","b","a","s","i","c"," ","s","h","a","r","e">>, <<"e","a","r","n","i","n","g","s"," ","(","l","o","s","s",")"," ","p","e",
          "r"," ","s","h","a","r","e">>,
       <<"e","a","r","n","i","n","g","s"," ","(","l","o","s","s",")"," ","p","e",
          "r"," ","c","o","m","m","o","n"," ","s","h","a","r","e">>, <<"n","e","t"," ","i","n","c","o","m","e"," ","(","l","o","s","s",")"," ",
          "p","e","r"," ","s","h","a","r","e">>,
       <<"n","e","t"," ","i","n","c","o","m","e"," ","(","l","o","s","s",")"," ",
          "p","e","r"," ","c","o","m","m","o","n"," ","s","h","a","r","e">>,
       <<"e","a","r","n","i","n","g","s"," ","p","e","r"," ","s","h","a","r","e",
          " ","a","t","t","r","i","b","u","t","a","b","l","e"," ","t","o"," ","c",
          "o","m","m","o","n"," ","s","t","o","c","k","h","o","l","d","e","r","s">>,
       <<"n","e","t"," ","i","n","c","o","m","e"," ","a","t","t","r","i","b","u",
          "t","a","b","l","e"," ","t","o"," ","c","o","m","m","o","n"," ","s","t",
          "o","c","k","h","o","l","d","e","r","s"," ","p","e","r"," ","c","o","m",
          "m","o","n"," ","s","h","a","r","e">>,
       <<"n","e","t"," ","i","n","c","o","m","e"," ","p","e","r"," ","s","h","a",
          "r","e"," ","a","v","a","i","l","a","b","l","e"," ","t","o"," ","c","o",
          "m","m","o","n"," ","s","t","o","c","k","h","o","l","d","e","r","s">> >>

table_headers ==
    << <<"c","o","n","s","o","l","i","d","a","t","e","d"," ","s","t","a","t","e",
          "m","e","n","t","s"," ","o","f"," ","o","p","e","r","a","t","i","o","n",
          "s">>,
       <<"c","o","n","s","o","l","i","d","a","t","e","d"," ","s","t","a","t","e",
          "m","e","n","t","s"," ","o","f"," ","i","n","c","o","m","e">>,
       <<"c","o","n","s","o","l","i","d","a","t","e","d"," ","s","t","a","t","e",
          "m","e","n","t","s"," ","o","f"," ","c","o","m","p","r","e","h","e","n",
          "s","i","v","e"," ","i","n","c","o","m","e">>,
       <<"c","o","n","d","e","n","s","e","d"," ","c","o","n","s","o","l","i","d",
          "a","t","e","d"," ","s","t","a","t","e","m","e","n","t","s"," ","o","f",
          " ","o","p","e","r","a","t","i","o","n","s">> >>

fallback_terms ==
    << <<"p","e","r"," ","s","h","a","r","e">>, <<"p","e","r"," ","b","a","s","i","c"," ","s","h","a","r","e">>, <<"p","e","r"," ","c","o","m","m","o","n"," ","s","h","a","r","e">>,
       <<"p","e","r"," ","d","i","l","u","t","e","d"," ","s","h","a","r","e">>, <<"p","e","r"," ","c","o","m","m","o","n"," ","s","t","o","c","k">> >>

\* the tags the table locator accepts as statement headers
HeaderTags == {"p", "b", "strong", "div"}

\* the characters after a term that fallback 1 inspects
Window1 == 100

\* the characters after a term that fallback 2 inspects
Window2 == 50

\* the rows after a matched row that the subsection lookahead inspects
LookaheadRows == 4

----------------------------------------------------------------------------
(* The document tree.  A document is the sequence of its block elements in *)
(* document order; a block is a text element [tag, text] or a table        *)
(* [tag |-> "table", rows], a row being the sequence of its cells' texts.  *)

\* row.get_text()
RowText(row) == Join(row)

\* tag.get_text()
BlockText(b) ==
    IF b.tag = "table"
    THEN Join([r \in 1..Len(b.rows) |-> RowText(b.rows[r])])
    ELSE b.text

\* soup.get_text()
AllText(d) == Join([i \in 1..Len(d) |-> BlockText(d[i])])

\* header.find_next('table'): the index of the first table after block i, or 0
FindNextTable(d, i) ==
    LET after == {j \in (i + 1)..Len(d) : d[j].tag = "table"}
    IN  IF after = {} THEN 0 ELSE SetMin(after)

\* Step 2 of find_eps_in_file: for each header phrase in turn, for each header
\* tag containing it in document order, the table that follows the tag.
LocateTables(d) ==
    LET n     == Len(d)
        pairs == [k \in 1..(Len(table_headers) * n) |->
                     [h |-> ((k - 1) \div n) + 1, i |-> ((k - 1) % n) + 1]]
        hit(q) == /\ d[q.i].tag \in HeaderTags
                  /\ Contains(Lower(BlockText(d[q.i])), table_headers[q.h])
                  /\ FindNextTable(d, q.i) # 0
        hits  == SelectSeq(pairs, hit)
    IN  [k \in 1..Len(hits) |-> d[FindNextTable(d, hits[k].i)].rows]

----------------------------------------------------------------------------------------------------------------------------------------------
(* find_eps_in_file: table mode                                            *)

\* the loop over eps_terms: the first term, from index k on, that occurs in
\* the row text
RECURSIVE FirstTermFrom(_, _)
FirstTermFrom(row_text_lower, k) ==
    IF k > Len(eps_terms) THEN None
    ELSE IF Contains(row_text_lower, eps_terms[k]) THEN eps_terms[k]
    ELSE FirstTermFrom(row_text_lower, k + 1)

\* MatchedTerm on the row text as written, not lower-cased, which C9 rejects
MatchedTermCased(row) == FirstTermFrom(RowText(row), 1)

MatchedTerm(row) == FirstTermFrom(Lower(RowText(row)), 1)

\* the values extract_eps_value gives for the cells of a row
CellValues(row) == [k \in 1..Len(row) |-> extract_eps_value(Strip(row[k]))]

\* the first element of values that is not None, or None
FirstValue(values) ==
    IF \A k \in 1..Len(values) : values[k] = None THEN None
    ELSE values[SetMin({k \in 1..Len(values) : values[k] # None})]

\* the loop over the cells of a row: the value of the first cell that
\* extract_eps_value accepts
FirstCellValue(row) == FirstValue(CellValues(row))

\* SignFlip that puts '-' before a value that is already negative, which C5
\* rejects
SignFlipAlways(value, row_text_lower) ==
    IF Contains(row_text_lower, <<"l","o","s","s">>) THEN <<"-">> \o value ELSE value

\* the sign inference: '-' + value unless the value starts with '-'
SignFlip(value, row_text_lower) ==
    IF /\ \/ Contains(row_text_lower, <<"l","o","s","s">>)
          \/ Contains(row_text_lower, <<"n","e","t"," ","l","o","s","s">>)
       /\ ~StartsWith(value, <<"-">>)
    THEN <<"-">> \o value
    ELSE value

\* the record appended to found_values
MakeCandidate(value, row_text_lower, term) ==
    [value    |-> SignFlip(value, row_text_lower),
     term     |-> term,
     is_basic |-> Contains(row_text_lower, <<"b","a","s","i","c">>),
     is_gaap  |-> \/ Contains(row_text_lower, <<"g","a","a","p">>)
                  \/ Contains(row_text_lower, <<"u","n","a","d","j","u","s","t","e","d">>)]

\* the candidate for a value taken from src_row
Candidate(value, src_row, term) ==
    MakeCandidate(value, Lower(RowText(src_row)), term)

\* LookaheadEnd for rows[i+1 : i+6], which C8 rejects
LookaheadEndFive(rows, i) ==
    IF i + LookaheadRows + 1 < Len(rows) THEN i + LookaheadRows + 1 ELSE Len(rows)

\* rows[i+1 : i+5] of the code, as the last index the lookahead reaches
LookaheadEnd(rows, i) ==
    IF i + LookaheadRows < Len(rows) THEN i + LookaheadRows ELSE Len(rows)

\* the rows with a cell that extract_eps_value accepts
ValueRows(rows) == {k \in 1..Len(rows) : FirstCellValue(rows[k]) # None}

\* the candidate for the value of row k, under the term of the matched row
RowCandidate(rows, k, term) == Candidate(FirstCellValue(rows[k]), rows[k], term)

\* the first of the rows `from`, if there is one, supplies the candidate
FirstRowCandidate(rows, from, term) ==
    IF from = {} THEN <<>> ELSE <<RowCandidate(rows, SetMin(from), term)>>

\* what a row that matched term appends to found_values: its own value, or
\* else the first value of the subsection lookahead
MatchedRowCandidates(rows, i, term, valued) ==
    FirstRowCandidate(rows,
                      IF i \in valued THEN {i}
                      ELSE valued \cap ((i + 1)..LookaheadEnd(rows, i)),
                      term)

\* the body of the loop over rows: what row i of a table appends to found_values
RowCandidates(rows, i) ==
    IF MatchedTerm(rows[i]) = None THEN <<>>
    ELSE MatchedRowCandidates(rows, i, MatchedTerm(rows[i]), ValueRows(rows))

IsBasic(v) == v.is_basic

IsGaap(v) == v.is_gaap

\* found_values = kept if kept else found_values
KeepIfAny(kept, found) == IF kept # <<>> THEN kept ELSE found

\* the GAAP filter
KeepGaap(found) == KeepIfAny(SelectSeq(found, IsGaap), found)

\* KeepBasic without the filter, which C4 rejects
KeepBasicSkipped(found) == found

\* the basic filter
KeepBasic(found) == KeepIfAny(SelectSeq(found, IsBasic), found)

\* Step 4: keep the basic candidates if there are any, then the GAAP ones if
\* there are any, and take the first
Prioritize(found) == KeepGaap(KeepBasic(found))[1]

----------------------------------------------------------------------------
(* find_eps_in_file: the text fallbacks                                    *)

IsDigitAt(s, p) == p >= 1 /\ p <= Len(s) /\ s[p] \in Digits

IsCharAt(s, p, c) == p >= 1 /\ p <= Len(s) /\ s[p] = c

\* \s* from position p: the first position at or after p that is not a space
RECURSIVE SkipSpaces(_, _)
SkipSpaces(s, p) ==
    IF p <= Len(s) /\ IsSpace(s[p]) THEN SkipSpaces(s, p + 1) ELSE p

\* c? from position p
SkipChar(s, p, c) == IF IsCharAt(s, p, c) THEN p + 1 ELSE p

\* \d{1,3} from position p, which holds a digit
SkipDigits3(s, p) ==
    IF IsDigitAt(s, p + 1) /\ IsDigitAt(s, p + 2) THEN p + 3
    ELSE IF IsDigitAt(s, p + 1) THEN p + 2
    ELSE p + 1

\* (,\d{3})* from position p
RECURSIVE SkipGroups(_, _)
SkipGroups(s, p) ==
    IF /\ IsCharAt(s, p, ",")
       /\ IsDigitAt(s, p + 1) /\ IsDigitAt(s, p + 2) /\ IsDigitAt(s, p + 3)
    THEN SkipGroups(s, p + 4)
    ELSE p

\* (\.\d{1,2})? from position p
SkipFraction(s, p) ==
    IF IsCharAt(s, p, ".") /\ IsDigitAt(s, p + 1)
    THEN (IF IsDigitAt(s, p + 2) THEN p + 3 ELSE p + 2)
    ELSE p

\* \(?\s*\$?\s* from position p
NumberPrefix(s, p) == SkipSpaces(s, SkipChar(s, SkipSpaces(s, SkipChar(s, p, "(")), "$"))

\* (\d{1,3}(,\d{3})*|\d+)(\.\d{1,2})?\s*\)? from position d: the position
\* after the match, or 0 if there is no digit at d.  Every part after the
\* first digit is optional and the first alternative always succeeds, so the
\* greedy match is the match.
NumberBody(s, d) ==
    IF IsDigitAt(s, d)
    THEN SkipChar(s, SkipSpaces(s, SkipFraction(s, SkipGroups(s, SkipDigits3(s, d)))), ")")
    ELSE 0

\* the number pattern matched at position p: the position after the match,
\* or 0 if it fails
NumberMatchAt(s, p) == NumberBody(s, NumberPrefix(s, p))

\* the match that starts at the first of starts
FirstNumber(context, starts) ==
    IF starts = {} THEN None
    ELSE SubSeq(context, SetMin(starts), NumberMatchAt(context, SetMin(starts)) - 1)

\* re.search(number pattern, context).group(0), or None
NumberSearch(context) ==
    FirstNumber(context, {p \in 1..Len(context) : NumberMatchAt(context, p) # 0})

\* whether position p of s holds a \w character
IsWordAt(s, p) == p >= 1 /\ p <= Len(s) /\ IsWordChar(s[p])

\* \b at the gap before position p of s
WordBoundary(s, p) == IsWordAt(s, p - 1) # IsWordAt(s, p)

\* the positions of s, in order, at which p occurs
Occurrences(s, p) == SelectSeq([i \in 1..Len(s) |-> i], LAMBDA i : OccursAt(s, p, i))

\* WordMatches for the pattern without \b, which C7 rejects
WordMatchesAnywhere(all_text, term) == Occurrences(Lower(all_text), term)

\* re.finditer(r'\b' + re.escape(term) + r'\b', all_text, re.IGNORECASE):
\* the start positions of the matches, in order
WordMatches(all_text, term) ==
    SelectSeq(Occurrences(Lower(all_text), term),
              LAMBDA p : /\ WordBoundary(all_text, p)
                         /\ WordBoundary(all_text, p + Len(term)))

\* re.finditer(term, all_text, re.IGNORECASE)
PlainMatches(all_text, term) == Occurrences(Lower(all_text), term)

\* all_text[first : first + window], first being counted from 1
Slice(all_text, first, window) ==
    SubSeq(all_text, first,
           IF first + window - 1 < Len(all_text) THEN first + window - 1
           ELSE Len(all_text))

\* all_text[match.end() : match.end() + window]
Context(all_text, start, term, window) == Slice(all_text, start + Len(term), window)

\* extract_eps_value(number_match.group(0)) if there is a match
NumberValue(number_match) ==
    IF number_match = None THEN None ELSE extract_eps_value(number_match)

\* the value a match yields: extract_eps_value of the first number in its
\* context, or None
MatchValue(all_text, start, term, window) ==
    NumberValue(NumberSearch(Context(all_text, start, term, window)))

\* the loop over the matches of one term: the first accepted value, or None
TermValue(all_text, matches, term, window) ==
    FirstValue([k \in 1..Len(matches) |-> MatchValue(all_text, matches[k], term, window)])

NoResult == [value |-> None, term |-> None]

\* the values the terms of a catalog yield in fallback search 1
Fallback1Values(all_text) ==
    [k \in 1..Len(eps_terms) |->
        TermValue(all_text, WordMatches(all_text, eps_terms[k]), eps_terms[k], Window1)]

\* the values the terms of a catalog yield in fallback search 2
Fallback2Values(all_text) ==
    [k \in 1..Len(fallback_terms) |->
        TermValue(all_text, PlainMatches(all_text, fallback_terms[k]),
                  fallback_terms[k], Window2)]

\* return value, term at the first term that yields a value
FirstTermResult(values, terms) ==
    IF \A k \in 1..Len(values) : values[k] = None THEN NoResult
    ELSE [value |-> FirstValue(values),
          term  |-> terms[SetMin({k \in 1..Len(values) : values[k] # None})]]

\* Fallback search 1
Fallback1Search(all_text) == FirstTermResult(Fallback1Values(all_text), eps_terms)

\* Fallback search 2
Fallback2Search(all_text) == FirstTermResult(Fallback2Values(all_text), fallback_terms)

----------
(* Bounds and inputs                                                       *)

\* longest argument of a stand-alone extract_eps_value call
MaxTokLen == 4

\* most rows of a table of result rows
MaxFlagRows == 3

\* most rows of a table of subsection rows
MaxRows == 6

\* most paragraphs of a document without tables
MaxParas == 2

\* most entries of the input directory
MaxFiles == 2

SeqsUpTo(S, n) == UNION {[1..k -> S] : k \in 0..n}

\* a run of n leader dots
Fill(n) == [i \in 1..n |-> "."]

\* the characters of the arguments of a stand-alone extract_eps_value call
TokenChars == {"(", ")", "$", ",", ".", "-", " ", "0", "2", "5"}

Tokens == SeqsUpTo(TokenChars, MaxTokLen)

\* rows of results; a cell's text starts with the whitespace that separates
\* it from the cell before
FlagRows ==
    { << <<" ","E","P","S"," ","(","G","A","A","P",")"," ","l","o","s","s">>, <<" ","2","0","2","0">>, <<" ","(","0",".","4","5",")">> >>,
      << <<" ","E","P","S"," ","a","n","d"," ","E","a","r","n","i","n","g","s"," ",
          "p","e","r"," ","s","h","a","r","e">>, <<" ","3","0">>, <<" ","2",".","5">> >>,
      << <<" ","B","a","s","i","c"," ","e","a","r","n","i","n","g","s"," ","p","e",
          "r"," ","s","h","a","r","e">>, <<" ","n","e","t"," ","l","o","s","s">>, <<" ","1",".","5","0">> >>,
      << <<" ","B","a","s","i","c"," ","E","P","S"," ","u","n","a","d","j","u","s",
          "t","e","d">>, <<" ","$","0",".","4","5">>, <<" ","1",".","5","0">> >>,
      << <<" ","D","i","l","u","t","e","d">>, <<" ","n","/","a">> >> }

\* rows that name a term and carry no value
TermRows ==
    { << <<" ","E","P","S">> >>,
      << <<" ","L","o","s","s"," ","p","e","r"," ","s","h","a","r","e"," ","(","G",
          "A","A","P",")">> >> }

\* rows of a statement with subsection labels: a label row that names a term
\* and a row with a value and no term
LabelRows ==
    { << <<" ","L","o","s","s"," ","p","e","r"," ","s","h","a","r","e"," ","(","G",
          "A","A","P",")">> >>,
      << <<" ","B","a","s","i","c">>, <<" ","1",".","5","0">> >> }

Table(rows) == [tag |-> "table", rows |-> rows]

Para(tag, text) == [tag |-> tag, text |-> text]

\* a label row followed by a row of results
PairTables == {<<l, r>> : l \in TermRows, r \in FlagRows}

Tables ==
    {Table(r) : r \in SeqsUpTo(FlagRows, MaxFlagRows) \cup SeqsUpTo(LabelRows, MaxRows)
                         \cup PairTables}

\* elements that the table locator takes for statement headers; the second
\* holds two of the header phrases
HeaderBlocks ==
    { Para("p", <<"C","o","n","s","o","l","i","d","a","t","e","d"," ","S","t","a","t","e",
          "m","e","n","t","s"," ","o","f"," ","O","p","e","r","a","t","i","o","n",
          "s">>),
      Para("div", <<"C","o","n","d","e","n","s","e","d"," ","C","o","n","s","o","l","i","d",
          "a","t","e","d"," ","S","t","a","t","e","m","e","n","t","s"," ","o","f",
          " ","O","p","e","r","a","t","i","o","n","s"," ">>) }

\* a heading that holds a header phrase in a tag the locator passes over
Heading == Para("h2", <<"C","o","n","s","o","l","i","d","a","t","e","d"," ","S","t","a","t","e",
          "m","e","n","t","s"," ","o","f"," ","I","n","c","o","m","e">>)

TailBlocks ==
    { <<>>, <<Para("p", <<" ","D","i","l","u","t","e","d"," ","E","P","S"," ","w","a","s"," ","$",
          "0",".","4","5"," ","f","o","r"," ","t","h","e"," ","q","u","a","r","t",
          "e","r">>)>> }

ShortParas ==
    { Para("p", <<"D","i","l","u","t","e","d"," ","E","P","S"," ","w","a","s"," ","$","0",
          ".","4","5"," ","f","o","r"," ","t","h","e"," ","q","u","a","r","t","e",
          "r">>),
      Para("p", <<" ","s","t","e","p","s"," ","2",".","5"," ">>),
      Para("p", <<" ","E","P","S"," ","2",".","5"," ","E","a","r","n","i","n","g","s"," ",
          "p","e","r"," ","s","h","a","r","e"," ","0",".","4","5"," ">>),
      Para("p", <<" ","E","P","S"," ","2","0","2","0"," ","E","P","S"," ","3","0"," ","e",
          "p","s"," ","(","0",".","4","5",")"," ">>),
      Para("p", <<" ","d","i","v","i","d","e","n","d","s"," ","p","e","r"," ","s","h","a",
          "r","e","h","o","l","d","e","r"," ","0",".","4","5"," ">>),
      Para("p", <<" ","p","e","r"," ","s","h","a","r","e"," ","3","0"," ","a","n","d"," ",
          "p","e","r"," ","c","o","m","m","o","n"," ","s","h","a","r","e"," ","2",
          ".","5"," ">>) }

\* paragraphs with a number at the last position of a window and just past it
WindowParas ==
    { Para("p", <<" ","E","P","S">> \o Fill(Window1 - 1) \o <<"2",".","5"," ">>),
      Para("p", <<" ","E","P","S">> \o Fill(Window1) \o <<"2",".","5"," ">>),
      Para("p", <<" ","p","e","r"," ","s","h","a","r","e">> \o Fill(Window2 - 1) \o <<"2",".","5"," ">>),
      Para("p", <<" ","p","e","r"," ","s","h","a","r","e">> \o Fill(Window2) \o <<"2",".","5"," ">>) }

\* documents with one statement table
TableDocs ==
    {<<h, t>> \o tail : h \in HeaderBlocks, t \in Tables, tail \in TailBlocks}
        \cup {<<Heading, Table(r)>> : r \in PairTables}

\* documents with two statement tables
TwoTableDocs ==
    {<<Para("p", <<"C","o","n","s","o","l","i","d","a","t","e","d"," ","S","t","a","t","e",
          "m","e","n","t","s"," ","o","f"," ","I","n","c","o","m","e">>), Table(<<r1>>),
       Para("p", <<"C","o","n","s","o","l","i","d","a","t","e","d"," ","S","t","a","t","e",
          "m","e","n","t","s"," ","o","f"," ","O","p","e","r","a","t","i","o","n",
          "s">>), Table(<<r2>>)>> :
        r1 \in FlagRows, r2 \in FlagRows}

\* documents without tables
TextDocs == SeqsUpTo(ShortParas, MaxParas) \cup {<<p>> : p \in WindowParas}

Docs == TableDocs \cup TwoTableDocs \cup TextDocs

\* the documents of the files of a directory
DirDocs ==
    { <<Para("p", <<"D","i","l","u","t","e","d"," ","E","P","S"," ","w","a","s"," ","$","0",
          ".","4","5"," ","f","o","r"," ","t","h","e"," ","q","u","a","r","t","e",
          "r">>)>>,
      <<Para("p", <<" ","s","t","e","p","s"," ","2",".","5"," ">>)>>,
      <<Para("p", <<" ","d","i","v","i","d","e","n","d","s"," ","p","e","r"," ","s","h","a",
          "r","e","h","o","l","d","e","r"," ","0",".","4","5"," ">>)>>,
      <<Para("p", <<"C","o","n","s","o","l","i","d","a","t","e","d"," ","S","t","a","t","e",
          "m","e","n","t","s"," ","o","f"," ","O","p","e","r","a","t","i","o","n",
          "s">>),
        Table(<< << <<" ","B","a","s","i","c"," ","e","a","r","n","i","n","g","s"," ","p","e",
          "r"," ","s","h","a","r","e">>, <<" ","n","e","t"," ","l","o","s","s">>, <<" ","1",".","5","0">> >> >>)>> }

FileNames == { <<"a",".","h","t","m","l">>, <<"b",".","h","t","m","l">>, <<"n","o","t","e","s",".","t","x","t">> }

\* directory listings: distinct names
Listings ==
    {l \in SeqsUpTo(FileNames, MaxFiles) :
        \A i, j \in 1..Len(l) : i # j => l[i] # l[j]}

NoDoc == <<>>

NoRet == [value |-> "pending", term |-> "pending"]

----------------------------------------------------------------------------
(* A stand-alone call of extract_eps_value                                 *)

InitExtract ==
    /\ pc = "extract"
    /\ tok \in Tokens
    /\ out = "pending"
    /\ listing = <<>>
    /\ fi = 1
    /\ results = <<>>
    /\ doc = NoDoc
    /\ target_tables = <<>>
    /\ ti = 0
    /\ ri = 0
    /\ found_values = <<>>
    /\ consulted = {}
    /\ ret = NoRet

Extract ==
    /\ pc = "extract"
    /\ out' = extract_eps_value(tok)
    /\ pc' = "extracted"
    /\ UNCHANGED <<tok, listing, fi, results, doc, target_tables, ti, ri,
                   found_values, consulted, ret>>

NextExtract == Extract

SpecExtract == InitExtract /\ [][NextExtract]_vars

----------------------------------------------------------------------------
(* find_eps_in_file                                                        *)

\* the first table, from index t on, that has a row; 0 if there is none
FirstTableWithRows(tables, t) ==
    LET later == {k \in t..Len(tables) : Len(tables[k]) > 0}
    IN  IF later = {} THEN 0 ELSE SetMin(later)

\* open(), read() and BeautifulSoup(): the document is built, or an
\* exception reaches the handler, which returns (None, None)
Load(docs) ==
    /\ pc = "open"
    /\ \/ \E d \in docs :
            /\ doc' = d
            /\ pc' = "locate"
            /\ ret' = ret
       \/ /\ doc' = doc
          /\ pc' = "return"
          /\ ret' = NoResult
    /\ UNCHANGED <<tok, out, listing, fi, results, target_tables, ti, ri,
                   found_values, consulted>>

\* step 2: the statement tables
Locate ==
    /\ pc = "locate"
    /\ target_tables' = LocateTables(doc)
    /\ LET t == FirstTableWithRows(target_tables', 1)
       IN  /\ ti' = t
           /\ ri' = IF t = 0 THEN 0 ELSE 1
           /\ pc' = IF t = 0 THEN "rank" ELSE "scan"
    /\ consulted' = IF target_tables' # <<>> THEN {"table"} ELSE {}
    /\ UNCHANGED <<tok, out, listing, fi, results, doc, found_values, ret>>

\* step 3: one iteration of the loop over the rows of the statement tables
ScanRow ==
    /\ pc = "scan"
    /\ found_values' = found_values \o RowCandidates(target_tables[ti], ri)
    /\ IF ri < Len(target_tables[ti])
       THEN /\ ri' = ri + 1
            /\ UNCHANGED <<ti, pc>>
       ELSE LET t == FirstTableWithRows(target_tables, ti + 1)
            IN  /\ ti' = t
                /\ ri' = IF t = 0 THEN 0 ELSE 1
                /\ pc' = IF t = 0 THEN "rank" ELSE "scan"
    /\ UNCHANGED <<tok, out, listing, fi, results, doc, target_tables,
                   consulted, ret>>

\* Rank that goes on to the fallbacks whatever table mode recorded, which C3
\* rejects
RankFallsThrough ==
    /\ pc = "rank"
    /\ pc' = "fallback1"
    /\ UNCHANGED <<tok, out, listing, fi, results, doc, target_tables, ti, ri,
                   found_values, consulted, ret>>

\* step 4: return the best candidate if table mode recorded any
Rank ==
    /\ pc = "rank"
    /\ IF found_values # <<>>
       THEN /\ ret' = [value |-> Prioritize(found_values).value,
                       term  |-> Prioritize(found_values).term]
            /\ pc' = "return"
       ELSE /\ ret' = ret
            /\ pc' = "fallback1"
    /\ UNCHANGED <<tok, out, listing, fi, results, doc, target_tables, ti, ri,
                   found_values, consulted>>

\* fallback search 1 over the whole text
Fallback1 ==
    /\ pc = "fallback1"
    /\ consulted' = consulted \cup {"fallback1"}
    /\ LET r == Fallback1Search(AllText(doc))
       IN  IF r # NoResult
           THEN /\ ret' = r
                /\ pc' = "return"
           ELSE /\ ret' = ret
                /\ pc' = "fallback2"
    /\ UNCHANGED <<tok, out, listing, fi, results, doc, target_tables, ti, ri,
                   found_values>>

\* fallback search 2 over the whole text, and "no value found"
Fallback2 ==
    /\ pc = "fallback2"
    /\ consulted' = consulted \cup {"fallback2"}
    /\ ret' = Fallback2Search(AllText(doc))
    /\ pc' = "return"
    /\ UNCHANGED <<tok, out, listing, fi, results, doc, target_tables, ti, ri,
                   found_values>>

Init ==
    /\ pc = "open"
    /\ tok = <<>>
    /\ out = "pending"
    /\ listing = <<>>
    /\ fi = 1
    /\ results = <<>>
    /\ doc = NoDoc
    /\ target_tables = <<>>
    /\ ti = 0
    /\ ri = 0
    /\ found_values = <<>>
    /\ consulted = {}
    /\ ret = NoRet

Next ==
    \/ Load(Docs)
    \/ Locate
    \/ ScanRow
    \/ Rank
    \/ Fallback1
    \/ Fallback2

Spec == Init /\ [][Next]_vars

----------------------------------------------------------------------------
(* process_directory                                                       *)

Html == <<".","h","t","m","l">>

NONE == <<"N","O","N","E">>

InitDir ==
    /\ pc = "loop"
    /\ tok = <<>>
    /\ out = "pending"
    /\ listing \in Listings
    /\ fi = 1
    /\ results = <<>>
    /\ doc = NoDoc
    /\ target_tables = <<>>
    /\ ti = 0
    /\ ri = 0
    /\ found_values = <<>>
    /\ consulted = {}
    /\ ret = NoRet

\* the loop head for an entry that ends with '.html': call find_eps_in_file
CallFind ==
    /\ pc = "loop"
    /\ fi <= Len(listing)
    /\ EndsWith(listing[fi], Html)
    /\ pc' = "open"
    /\ doc' = NoDoc
    /\ target_tables' = <<>>
    /\ ti' = 0
    /\ ri' = 0
    /\ found_values' = <<>>
    /\ consulted' = {}
    /\ ret' = NoRet
    /\ UNCHANGED <<tok, out, listing, fi, results>>

\* the loop head for any other entry
SkipEntry ==
    /\ pc = "loop"
    /\ fi <= Len(listing)
    /\ ~EndsWith(listing[fi], Html)
    /\ fi' = fi + 1
    /\ UNCHANGED <<pc, tok, out, listing, results, doc, target_tables, ti, ri,
                   found_values, consulted, ret>>

\* Collect that appends no row for a file without a value, which C6 rejects
CollectFound ==
    /\ pc = "return"
    /\ results' = IF ret.value # None
                  THEN Append(results, [filename |-> listing[fi],
                                        EPS |-> ret.value, EPS_Term |-> ret.term])
                  ELSE results
    /\ fi' = fi + 1
    /\ pc' = "loop"
    /\ UNCHANGED <<tok, out, listing, doc, target_tables, ti, ri,
                   found_values, consulted, ret>>

\* results.append(...) with the value find_eps_in_file returned
Collect ==
    /\ pc = "return"
    /\ results' = Append(results,
                         [filename |-> listing[fi],
                          EPS      |-> IF ret.value # None THEN ret.value ELSE NONE,
                          EPS_Term |-> IF ret.term # None THEN ret.term ELSE NONE])
    /\ fi' = fi + 1
    /\ pc' = "loop"
    /\ UNCHANGED <<tok, out, listing, doc, target_tables, ti, ri,
                   found_values, consulted, ret>>

\* the end of the loop: the rows are written to the output file
WriteCsv ==
    /\ pc = "loop"
    /\ fi > Len(listing)
    /\ pc' = "written"
    /\ UNCHANGED <<tok, out, listing, fi, results, doc, target_tables, ti, ri,
                   found_values, consulted, ret>>

NextDir ==
    \/ CallFind
    \/ SkipEntry
    \/ Load(DirDocs)
    \/ Locate
    \/ ScanRow
    \/ Rank
    \/ Fallback1
    \/ Fallback2
    \/ Collect
    \/ WriteCsv

SpecDir == InitDir /\ [][NextDir]_vars

----------------------------------------------------------------------------
(* Properties                                                              *)

Range(f) == {f[i] : i \in 1..Len(f)}

\* a canonical value: an optional '-', digits, a point and two digits
IsTwoDecimal(s) ==
    /\ Len(s) >= 4
    /\ s[Len(s) - 2] = "."
    /\ s[Len(s) - 1] \in Digits
    /\ s[Len(s)] \in Digits
    /\ LET first == IF s[1] = "-" THEN 2 ELSE 1
       IN  /\ first <= Len(s) - 3
           /\ \A i \in first..(Len(s) - 3) : s[i] \in Digits

\* the magnitude, in hundredths, of the number a canonical value denotes
Magnitude(s) ==
    LET first == IF s[1] = "-" THEN 2 ELSE 1
    IN  NatOf(SubSeq(s, first, Len(s) - 3)) * 100 + NatOf(SubSeq(s, Len(s) - 1, Len(s)))

\* a bare 4-digit year in 1900..2100
IsYear(s) ==
    /\ Len(s) = 4
    /\ \A i \in 1..4 : s[i] \in Digits
    /\ NatOf(s) >= 1900
    /\ NatOf(s) <= 2100

Returned == pc = "return" /\ ret.value # None

\* C1: a value find_eps_in_file returns, whichever mode produced it, denotes
\* a number in [-25, 25] and is never a 4-digit year in 1900..2100.
C1_ReturnedValueInRange ==
    Returned =>
        /\ IsTwoDecimal(ret.value)
        /\ Magnitude(ret.value) <= 2500
        /\ ~IsYear(ret.value)

\* a sign-flipped value of table mode is returned
C1_Witness ==
    /\ Returned
    /\ "table" \in consulted
    /\ ret.value = <<"-","1",".","5","0">>
    /\ \E t \in Range(target_tables) : \E r \in Range(t) : <<" ","2","0","2","0">> \in Range(r)

\* 10 to the power k
RECURSIVE Pow10(_)
Pow10(k) == IF k = 0 THEN 1 ELSE 10 * Pow10(k - 1)

\* |v| in units of 10^-Len(v.frac)
Scaled(v) ==
    v.whole * Pow10(Len(v.frac))
        + NatOf([i \in 1..Len(v.frac) |-> DigitChars[v.frac[i] + 1]])

\* s is v written with exactly two fractional digits: canonical, the nearest
\* hundredth, and negative exactly if v is
FormatsAs(s, v) ==
    /\ s # None
    /\ IsTwoDecimal(s)
    /\ LET d == Magnitude(s) * Pow10(Len(v.frac)) - Scaled(v) * 100
       IN  /\ 2 * d <= Pow10(Len(v.frac))
           /\ 2 * d >= 0 - Pow10(Len(v.frac))
    /\ (s[1] = "-") = v.neg

\* C2: extract_eps_value returns v with two fractional digits when the
\* trimmed token, with '$' and ',' removed unless it is parenthesized, parses
\* as a number v in [-25, 25]; (N) yields the negation of N; every token that
\* does not parse, is out of range or is a year in 1900..2100 yields None.
C2_ExtractContract ==
    pc = "extracted" =>
        LET t == Strip(tok)
            n == ParseFloat(SubSeq(t, 2, Len(t) - 1))
            v == ParseFloat(Remove(t, {"$", ","}))
        IN  /\ IsParenthesized(t) =>
                IF n.ok /\ InBounds(n)
                THEN FormatsAs(out, [n EXCEPT !.neg = ~n.neg])
                ELSE out = None
            /\ ~IsParenthesized(t) =>
                IF v.ok /\ InBounds(v) THEN FormatsAs(out, v) ELSE out = None
            /\ IsYear(t) => out = None

\* a parenthesized token was negated
C2_Witness ==
    /\ pc = "extracted"
    /\ tok = <<"(",".","5",")">>
    /\ out = <<"-","0",".","5","0">>

\* C3: table mode with a candidate preempts both fallbacks; fallback 1 runs
\* only when table mode recorded nothing; fallback 2 runs only when fallback
\* 1 accepted nothing; a generic term is returned only then.
C3_ModePrecedence ==
    /\ (pc = "return" /\ found_values # <<>>) =>
          /\ \E c \in Range(found_values) : ret = [value |-> c.value, term |-> c.term]
          /\ consulted \cap {"fallback1", "fallback2"} = {}
    /\ "fallback1" \in consulted => found_values = <<>>
    /\ "fallback2" \in consulted =>
          /\ "fallback1" \in consulted
          /\ \A k \in 1..Len(eps_terms) : Fallback1Values(AllText(doc))[k] = None
    /\ (pc = "return" /\ ret.term \in Range(fallback_terms)) =>
          /\ found_values = <<>>
          /\ "fallback2" \in consulted

\* table mode returned although the text would have fed fallback 1
C3_Witness ==
    /\ pc = "return"
    /\ found_values # <<>>
    /\ ret.value # None
    /\ \E k \in 1..Len(eps_terms) : Fallback1Values(AllText(doc))[k] # None

\* the candidates the ranker keeps: the basic ones if any is basic, and of
\* those the GAAP ones if any of those is GAAP
Survives(found, i) ==
    LET anyBasic == \E j \in 1..Len(found) : found[j].is_basic
        inBasic(j) == anyBasic => found[j].is_basic
        anyGaap == \E j \in 1..Len(found) : inBasic(j) /\ found[j].is_gaap
    IN  /\ inBasic(i)
        /\ anyGaap => found[i].is_gaap

\* C4: the ranker returns the first candidate, in discovery order, of those
\* that survive the basic filter and then the GAAP filter; a basic candidate
\* is returned whenever any candidate is basic.
C4_RankerPicksFirstSurvivor ==
    (pc = "return" /\ found_values # <<>>) =>
        LET first == SetMin({i \in 1..Len(found_values) : Survives(found_values, i)})
        IN  /\ ret = [value |-> found_values[first].value,
                      term  |-> found_values[first].term]
            /\ (\E j \in 1..Len(found_values) : found_values[j].is_basic)
                  => found_values[first].is_basic

\* a basic candidate won over an earlier non-basic GAAP candidate
C4_Witness ==
    /\ pc = "return"
    /\ Len(found_values) >= 2
    /\ ~found_values[1].is_basic
    /\ found_values[1].is_gaap
    /\ found_values[2].is_basic
    /\ ~found_values[2].is_gaap
    /\ ret.value = found_values[2].value
    /\ ret.value # found_values[1].value

\* what the row being scanned appends to found_values in this step
Appended == SubSeq(found_values', Len(found_values) + 1, Len(found_values'))

ScanStep ==
    /\ pc = "scan"
    /\ Len(found_values') >= Len(found_values)
    /\ SubSeq(found_values', 1, Len(found_values)) = found_values

\* whether a cell of the row is accepted by extract_eps_value
HasValue(row) == \E k \in 1..Len(row) : extract_eps_value(Strip(row[k])) # None

\* the value of the first accepted cell of the row
RowValue(row) ==
    extract_eps_value(Strip(row[SetMin({k \in 1..Len(row) :
                                          extract_eps_value(Strip(row[k])) # None})]))

\* the rows of the table being scanned
Rows == target_tables[ti]

\* the row that supplies the value when row ri is scanned: the row itself or
\* the first of the next four rows with an accepted cell; 0 if there is none
Supplier ==
    IF HasValue(Rows[ri]) THEN ri
    ELSE LET next == {k \in (ri + 1)..(ri + 4) : k <= Len(Rows) /\ HasValue(Rows[k])}
         IN  IF next = {} THEN 0 ELSE SetMin(next)

HasLoss(row) == Contains(Lower(RowText(row)), <<"l","o","s","s">>)

\* C5: a candidate whose value comes from a row containing "loss" is
\* recorded negative: '-' is put before a value that is not negative, and a
\* negative value is left as it is.
C5_LossRowsAreNegative ==
    [][(ScanStep /\ Appended # <<>>) =>
         LET from  == Supplier
             value == RowValue(Rows[from])
         IN  (from # 0 /\ HasLoss(Rows[from])) =>
                \A c \in Range(Appended) :
                   /\ c.value[1] = "-"
                   /\ c.value = IF value[1] = "-" THEN value ELSE <<"-">> \o value]_vars

\* the unsigned 1.50 of a "loss" row under "Basic earnings per share" was
\* recorded as -1.50
C5_Witness ==
    /\ found_values # <<>>
    /\ found_values[1].value = <<"-","1",".","5","0">>
    /\ found_values[1].term = <<"b","a","s","i","c"," ","e","a","r","n","i","n","g","s"," ","p","e","r",
          " ","s","h","a","r","e">>
    /\ target_tables[1][1] = << <<" ","B","a","s","i","c"," ","e","a","r","n","i","n","g","s"," ","p","e",
          "r"," ","s","h","a","r","e">>, <<" ","n","e","t"," ","l","o","s","s">>, <<" ","1",".","5","0">> >>

\* the terms of the catalog that occur in the lower-cased text of the row
TermsIn(row) ==
    LET low == Lower(RowText(row))
    IN  {k \in 1..Len(eps_terms) : Contains(low, eps_terms[k])}

\* C8: a matched row without a value takes the value of the first of the
\* next four rows of the table that has one, as one candidate under the
\* matched term with the sign and flags of the supplying row; without such a
\* row it records nothing; a matched row with a value is not looked past.
C8_SubsectionLookahead ==
    [][ScanStep =>
         LET terms == TermsIn(Rows[ri])
             from  == Supplier
             text  == Lower(RowText(Rows[from]))
             value == RowValue(Rows[from])
         IN  terms # {} =>
                IF from = 0 THEN Appended = <<>>
                ELSE /\ Len(Appended) = 1
                     /\ Appended[1].term = eps_terms[SetMin(terms)]
                     /\ Appended[1].is_basic = Contains(text, <<"b","a","s","i","c">>)
                     /\ Appended[1].is_gaap =
                           (Contains(text, <<"g","a","a","p">>) \/ Contains(text, <<"u","n","a","d","j","u","s","t","e","d">>))
                     /\ Appended[1].value \in {value, <<"-">> \o value}
                     /\ (Appended[1].value[1] = "-") =
                           (Contains(text, <<"l","o","s","s">>) \/ value[1] = "-")
                     /\ HasValue(Rows[ri]) => from = ri]_vars

\* a label row took the value, sign and flags of the row below it
C8_Witness ==
    /\ pc = "scan"
    /\ ri = 2
    /\ Len(target_tables[ti]) >= 2
    /\ target_tables[ti][1] = << <<" ","L","o","s","s"," ","p","e","r"," ","s","h","a","r","e"," ","(","G",
          "A","A","P",")">> >>
    /\ target_tables[ti][2] = << <<" ","B","a","s","i","c">>, <<" ","1",".","5","0">> >>
    /\ found_values = <<[value |-> <<"1",".","5","0">>, term |-> <<"l","o","s","s"," ","p","e","r"," ","s","h","a","r","e">>,
                         is_basic |-> TRUE, is_gaap |-> FALSE]>>

\* C9: the term of a row is the first catalog term, in catalog order, that is
\* a substring of its lower-cased text; a row records at most one candidate,
\* from its first accepted cell if it has one; a row with no term records none.
C9_FirstTermOneCandidate ==
    [][ScanStep =>
         LET terms == TermsIn(Rows[ri])
             value == RowValue(Rows[ri])
         IN  /\ Len(Appended) <= 1
             /\ terms = {} => Appended = <<>>
             /\ (terms # {} /\ HasValue(Rows[ri])) =>
                   /\ Len(Appended) = 1
                   /\ Appended[1].term = eps_terms[SetMin(terms)]
                   /\ Appended[1].value \in {value, <<"-">> \o value}
             /\ \A c \in Range(Appended) : c.term = eps_terms[SetMin(terms)]]_vars

\* catalog order beat position in the row: "earnings per share" was matched
\* in a row that starts with "EPS", and the first accepted cell gave the value
C9_Witness ==
    /\ found_values # <<>>
    /\ target_tables[1][1] = << <<" ","E","P","S"," ","a","n","d"," ","E","a","r","n","i","n","g","s"," ",
          "p","e","r"," ","s","h","a","r","e">>, <<" ","3","0">>, <<" ","2",".","5">> >>
    /\ found_values[1].term = <<"e","a","r","n","i","n","g","s"," ","p","e","r"," ","s","h","a","r","e">>
    /\ found_values[1].value = <<"2",".","5","0">>

\* term occurs in text at p, in any case, with no word character on either
\* side; low is the lower-cased text
WholeWordAt(text, low, term, p) ==
    /\ OccursAt(low, term, p)
    /\ ~(p > 1 /\ IsWordChar(text[p - 1]))
    /\ ~(p + Len(term) <= Len(text) /\ IsWordChar(text[p + Len(term)]))

\* the value accepted for the occurrence at p: extraction of the first
\* numeric token among the window characters that follow it
AcceptedAfter(text, term, p, window) ==
    LET from   == p + Len(term)
        to     == IF from + window - 1 <= Len(text) THEN from + window - 1 ELSE Len(text)
        number == NumberSearch(SubSeq(text, from, to))
    IN  IF number = None THEN None ELSE extract_eps_value(number)

\* the result of scanning: the first term in catalog order, and for it the
\* first occurrence in position order, whose value is accepted
ScanResult(text, terms, window, wholeWord) ==
    LET low  == Lower(text)
        occ  == [k \in 1..Len(terms) |->
                    {p \in 1..Len(text) :
                        /\ IF wholeWord THEN WholeWordAt(text, low, terms[k], p)
                           ELSE OccursAt(low, terms[k], p)
                        /\ AcceptedAfter(text, terms[k], p, window) # None}]
        hits == {k \in 1..Len(terms) : occ[k] # {}}
    IN  IF hits = {} THEN NoResult
        ELSE [value |-> AcceptedAfter(text, terms[SetMin(hits)],
                                      SetMin(occ[SetMin(hits)]), window),
              term  |-> terms[SetMin(hits)]]

\* fallback 1 has run
AfterFallback1 == "fallback1" \in consulted /\ pc \in {"fallback2", "return"}

SpecExample == <<Para("p", <<"D","i","l","u","t","e","d"," ","E","P","S"," ","w","a","s"," ","$","0",
          ".","4","5"," ","f","o","r"," ","t","h","e"," ","q","u","a","r","t","e",
          "r">>)>>

\* C7: fallback 1 returns the first accepted value in catalog order, then in
\* position order of the whole-word occurrences, reading 100 characters
\* after each; the document "Diluted EPS was $0.45 for the quarter" yields 0.45.
C7_Fallback1Scan ==
    /\ AfterFallback1 =>
          IF ScanResult(AllText(doc), eps_terms, 100, TRUE) = NoResult
          THEN "fallback2" \in consulted \/ pc = "fallback2"
          ELSE pc = "return" /\ ret = ScanResult(AllText(doc), eps_terms, 100, TRUE)
    /\ (pc = "return" /\ doc = SpecExample) =>
          ret = [value |-> <<"0",".","4","5">>, term |-> <<"e","p","s">>]

\* catalog order beat position: "earnings per share" was returned although
\* "EPS 2.5" comes first in the text
C7_Witness ==
    /\ pc = "return"
    /\ doc = <<Para("p", <<" ","E","P","S"," ","2",".","5"," ","E","a","r","n","i","n","g","s"," ",
          "p","e","r"," ","s","h","a","r","e"," ","0",".","4","5"," ">>)>>
    /\ ret = [value |-> <<"0",".","4","5">>, term |-> <<"e","a","r","n","i","n","g","s"," ","p","e","r"," ","s","h","a","r","e">>]

\* C10 as claimed: fallback 2 returns the first accepted value over the
\* whole-word occurrences of the generic terms, reading 50 characters after
\* each, or (None, None).
C10_Fallback2WholeWord ==
    (pc = "return" /\ "fallback2" \in consulted) =>
        ret = ScanResult(AllText(doc), fallback_terms, 50, TRUE)

\* the entries of the listing, among the first n, that end with '.html'
HtmlEntries(n) == {i \in 1..n : i <= Len(listing) /\ EndsWith(listing[i], Html)}

\* C6: find_eps_in_file returns a value and a term or neither; a failure to
\* read or parse gives (None, None); process_directory collects one row per
\* '.html' entry, NONE/NONE for a file without a result, and goes on.
C6_OneRowPerFile ==
    /\ (ret.value = None) = (ret.term = None)
    /\ (ret = NoRet) = (ret.value = "pending")
    /\ (ret = NoRet) = (ret.term = "pending")
    /\ pc = "return" => ret # NoRet
    /\ (pc = "return" /\ doc = NoDoc) => ret = NoResult
    /\ Len(results) = Cardinality(HtmlEntries(fi - 1))
    /\ pc = "written" => Len(results) = Cardinality(HtmlEntries(Len(listing)))
    /\ \A k \in 1..Len(results) :
          /\ EndsWith(results[k].filename, Html)
          /\ Cardinality(HtmlEntries(
                CHOOSE i \in 1..Len(listing) : listing[i] = results[k].filename)) = k
          /\ (results[k].EPS = NONE) = (results[k].EPS_Term = NONE)

\* the first file could not be read: its row is NONE/NONE and the loop is
\* at the second file
C6_Witness ==
    /\ pc = "loop"
    /\ fi = 2
    /\ Len(listing) = 2
    /\ EndsWith(listing[2], Html)
    /\ doc = NoDoc
    /\ results = <<[filename |-> listing[1], EPS |-> NONE, EPS_Term |-> NONE]>>

====
